---- MODULE Spec2Model ----
(***************************************************************************)
(* A model of two pieces of floringogianu/graveyard:                       *)
(*   - BootstrappedEstimator (theodon-tabular/src/models.py), an ensemble  *)
(*     of B estimators with optional randomized prior functions;           *)
(*   - Episode (cvf/src/rl_routines.py), an iterator over environment      *)
(*     transitions.                                                        *)
(*                                                                         *)
(* Python objects live in an object heap: a module object points to its    *)
(* Parameter objects, a Parameter points to the tensor holding its data,   *)
(* so that aliasing (shared modules, shared parameters, shared storage)    *)
(* is something the model can exhibit.  Tensor values are integers in      *)
(* units of 0.1; a mean or a variance is an exact fraction num/den, and    *)
(* den = 0 stands for the NaN that 0/0 gives in floating point.            *)
(*                                                                         *)
(* The prototype is an estimator that exposes its `weight` and `bias`      *)
(* Parameters directly, as BootstrappedEstimator.__init__ requires of it   *)
(* (model.weight, prior_fn.weight), and that resets and predicts as        *)
(* LinearEstimator does.  beta ranges over the non-negative integers.      *)
(***************************************************************************)
EXTENDS Integers, Sequences, FiniteSets, TLC

\* ------------------------------------------------------------------ bounds
MaxB == 3
MaxBeta == 1
MaxTrain == 1
MaxSteps == 4

\* out_size of the estimators built by get_estimator
OutSize == 2
\* 0.1 * beta, in units of 0.1
PriorScaleTenths == 1

\* the draws reset_parameters() may make for (weight, bias)
ResetDraws ==
    { [weight |-> <<0, 0>>, bias |-> <<1, 1>>],
      [weight |-> <<1, 2>>, bias |-> <<0, 1>>] }
\* the standard-normal draws a sample() may make
EpsVals == { <<0, 0>>, <<1, -1>> }
\* inputs x (one batch row, one feature)
XVals == { 1 }
\* the additive update an optimizer step applies to a parameter
Delta == <<1, 1>>
\* member indices a caller may pass as mid: every valid index, and indices
\* below, at and beyond both ends of the list
Mids == (0 .. (MaxB - 1)) \cup { 0 - MaxB - 1, 0 - MaxB, -1, MaxB, MaxB + 2 }
\* the parameters the prototype arrives with
ProtoDraw == [weight |-> <<2, 1>>, bias |-> <<1, 0>>]
\* rewards and states of the environment
Rewards == { -1, 0, 1 }
EnvStates == { 0, 1 }

VARIABLES
    heap,        \* object heap: address -> module | param | tensor | free
    proto,       \* the prototype module handed to the constructor
    ensemble,    \* self.__ensemble : list of module addresses
    prior_fns,   \* self.__prior_fns : list of module addresses
    priors,      \* self.__priors : list of Normal(loc, scale)
    bno,         \* self.__bno
    beta,        \* self.__beta
    ctor,        \* history: what the constructor was given and produced
    trained,     \* history: number of optimizer steps taken
    call,        \* history: the last call on the ensemble and its outcome
    ep,          \* the Episode object's fields
    epLog        \* history: what the Episode has done so far

ensVars == <<heap, proto, ensemble, prior_fns, priors, bno, beta, ctor, trained, call>>
epVars == <<ep, epLog>>
vars == <<heap, proto, ensemble, prior_fns, priors, bno, beta, ctor, trained, call, ep, epLog>>

\* ------------------------------------------------------------------- heap
HeapSize == 5 + 12 * MaxB + 1
Addr == 1 .. HeapSize
FreeCell == [kind |-> "free"]
Tensor(v) == [kind |-> "tensor", val |-> v]
Param(t, rg) == [kind |-> "param", data |-> t, requires_grad |-> rg]
Module(w, b) == [kind |-> "module", weight |-> w, bias |-> b]

FreeAddrs(h) == { a \in Addr : h[a].kind = "free" }
Alloc(h) == CHOOSE a \in FreeAddrs(h) : \A b \in FreeAddrs(h) : a <= b
New(h, obj) == LET a == Alloc(h) IN [heap |-> [h EXCEPT ![a] = obj], ref |-> a]

\* the tensor value behind a Parameter, and behind a module's weight / bias
DataOf(h, p) == h[h[p].data].val
WeightOf(h, m) == DataOf(h, h[m].weight)
BiasOf(h, m) == DataOf(h, h[m].bias)

\* the first of 5 consecutive free addresses
AllocModule(h) ==
    CHOOSE a \in Addr : /\ \A d \in 0 .. 4 : (a + d) \in FreeAddrs(h)
                        /\ \A b \in FreeAddrs(h) : a <= b

\* a module laid out at a: weight tensor, weight Parameter, bias tensor, bias
\* Parameter, and the module object itself
PutModule(h, a, w, wrg, b, brg) ==
    [heap |-> [h EXCEPT ![a] = Tensor(w), ![a + 1] = Param(a, wrg),
                        ![a + 2] = Tensor(b), ![a + 3] = Param(a + 2, brg),
                        ![a + 4] = Module(a + 1, a + 3)],
     ref |-> a + 4]

\* a copy that hands back the very same module object
AliasCopy(h, m) == [heap |-> h, ref |-> m]

\* a copy with a new module and new Parameters that still point at the
\* storage of the original's parameters
SharedStorageCopy(h, m) ==
    LET a == AllocModule(h)
    IN  [heap |-> [h EXCEPT ![a] = Tensor(WeightOf(h, m)),
                            ![a + 1] = Param(h[h[m].weight].data, TRUE),
                            ![a + 2] = Tensor(BiasOf(h, m)),
                            ![a + 3] = Param(h[h[m].bias].data, TRUE),
                            ![a + 4] = Module(a + 1, a + 3)],
         ref |-> a + 4]

\* copy.deepcopy(module): a new module with new Parameters on new storage
DeepCopy(h, m) ==
    PutModule(h, AllocModule(h), WeightOf(h, m), h[h[m].weight].requires_grad,
              BiasOf(h, m), h[h[m].bias].requires_grad)

\* no clone: the very same tensor
CloneAlias(h, t) == [heap |-> h, ref |-> t]

\* tensor.clone(): a new tensor with the same values
Clone(h, t) == New(h, Tensor(h[t].val))

\* torch.full_like(t, v)
FullLike(h, t, v) == New(h, Tensor([k \in DOMAIN h[t].val |-> v]))

\* an in-place write to the storage of Parameter p (normal_(), add_())
SetData(h, p, v) == [h EXCEPT ![h[p].data] = Tensor(v)]

\* reset_parameters(): both parameters redrawn in place
ResetParameters(h, m, d) ==
    SetData(SetData(h, h[m].weight, d.weight), h[m].bias, d.bias)

\* ----------------------------------------------------------- construction
\* the prototype as its constructor leaves it: a weight and a bias Parameter,
\* both trainable, holding the draw d of its reset_parameters()
NewEstimator(h, d) == PutModule(h, AllocModule(h), d.weight, TRUE, d.bias, TRUE)

\* [deepcopy(s) for s in srcs]
RECURSIVE CopyEach(_, _)
CopyEach(h, srcs) ==
    IF srcs = <<>> THEN [heap |-> h, refs |-> <<>>]
    ELSE LET r == CopyEach(h, SubSeq(srcs, 1, Len(srcs) - 1))
             c == DeepCopy(r.heap, srcs[Len(srcs)])
         IN  [heap |-> c.heap, refs |-> Append(r.refs, c.ref)]

\* for model in ensemble: model.reset_parameters()   (the first k members)
RECURSIVE ResetAll(_, _, _, _)
ResetAll(h, ens, draws, k) ==
    IF k = 0 THEN h
    ELSE ResetParameters(ResetAll(h, ens, draws, k - 1), ens[k], draws[k])

\* a test that a beta of 0 passes too (`if beta is not None:`)
TruthyAlways(b) == TRUE

\* `if beta:`
Truthy(b) == b # 0

\* the body of the loop over zip(ensemble, prior_fns), for the first k pairs
RECURSIVE SetPriors(_, _, _, _, _)
SetPriors(h, ens, pfs, b, k) ==
    IF k = 0 THEN [heap |-> h, priors |-> <<>>]
    ELSE LET r == SetPriors(h, ens, pfs, b, k - 1)
             loc == Clone(r.heap, r.heap[r.heap[ens[k]].weight].data)
             scale == FullLike(loc.heap, loc.ref, PriorScaleTenths * b)
             w == scale.heap[pfs[k]].weight
         IN  [heap |-> [scale.heap EXCEPT ![w].requires_grad = FALSE],
              priors |-> Append(r.priors, [loc |-> loc.ref, scale |-> scale.ref])]

\* BootstrappedEstimator.__init__(proto_model, B, beta)
Construct(h, p, B, b, draws) ==
    LET e == CopyEach(h, [i \in 1 .. B |-> p])
        h2 == ResetAll(e.heap, e.refs, draws, B)
    IN  IF Truthy(b)
        THEN LET pf == CopyEach(h2, e.refs)
                 pr == SetPriors(pf.heap, e.refs, pf.refs, b, B)
             IN  [heap |-> pr.heap, ensemble |-> e.refs, prior_fns |-> pf.refs,
                  priors |-> pr.priors, bno |-> B, beta |-> b]
        ELSE [heap |-> h2, ensemble |-> e.refs, prior_fns |-> <<>>,
              priors |-> <<>>, bno |-> B, beta |-> b]

NoCall ==
    [op |-> "init", x |-> 0, has_mid |-> FALSE, mid |-> 0, has_action |-> FALSE,
     action |-> 0, raised |-> "none", y |-> <<>>, eps |-> <<>>, items |-> <<>>, n |-> 0]

NoEpisode == [R |-> 0, step_cnt |-> 0, state |-> 0, done |-> TRUE]
NoEpLog == [returned |-> 0, rewards |-> 0, acts |-> 0, env_steps |-> 0, stops |-> 0, last |-> "none"]

InitEnsemble ==
    \E B \in 1 .. MaxB, b \in 0 .. MaxBeta :
      \E draws \in [1 .. B -> ResetDraws] :
        LET p == NewEstimator([a \in Addr |-> FreeCell], ProtoDraw)
            c == Construct(p.heap, p.ref, B, b, draws)
        IN  /\ heap = c.heap
            /\ proto = p.ref
            /\ ensemble = c.ensemble
            /\ prior_fns = c.prior_fns
            /\ priors = c.priors
            /\ bno = c.bno
            /\ beta = c.beta
            /\ ctor = [B |-> B, beta |-> b, members |-> c.ensemble,
                       weights |-> [i \in 1 .. Len(c.ensemble) |-> WeightOf(c.heap, c.ensemble[i])],
                       proto_weight |-> ProtoDraw.weight, proto_bias |-> ProtoDraw.bias]
            /\ trained = 0
            /\ call = NoCall

Init ==
    /\ InitEnsemble
    /\ ep = NoEpisode
    /\ epLog = NoEpLog

\* ------------------------------------------------------------ estimators
\* LinearEstimator.forward on one input row with one feature: weight * x + bias
ModelOut(h, m, x) == [k \in 1 .. OutSize |-> WeightOf(h, m)[k] * x + BiasOf(h, m)[k]]

\* list[i] of Python: a negative index counts from the end
NormIndex(n, i) == IF i < 0 THEN i + n ELSE i
InRange(n, i) == NormIndex(n, i) \in 0 .. (n - 1)

\* Normal(loc, scale).sample() with standard-normal draw eps
SampleVal(h, prior, eps) ==
    [k \in 1 .. OutSize |-> h[prior.loc].val[k] + eps[k] * h[prior.scale].val[k]]

\* who else holds tensor t: a Parameter other than p, or a distribution
OtherHolders(h, prs, p, t) ==
    \/ \E q \in Addr : q # p /\ h[q].kind = "param" /\ h[q].data = t
    \/ \E k \in 1 .. Len(prs) : prs[k].loc = t \/ prs[k].scale = t

\* `param.data = <new tensor of value v>`: the Parameter is rebound to new
\* storage; the old tensor is freed when nothing else holds it (its address is
\* then the one reused, which no Python code can observe)
AssignData(h, prs, p, v) ==
    LET old == h[p].data
    IN  IF OtherHolders(h, prs, p, old)
        THEN LET t == New(h, Tensor(v)) IN [t.heap EXCEPT ![p].data = t.ref]
        ELSE [h EXCEPT ![old] = Tensor(v)]

\* prior_fn.weight.data = prior.sample(), for the prior functions idxs[1..k]
RECURSIVE ResampleEach(_, _, _, _, _, _)
ResampleEach(h, prs, pfs, idxs, epsf, k) ==
    IF k = 0 THEN h
    ELSE LET r == ResampleEach(h, prs, pfs, idxs, epsf, k - 1)
             i == idxs[k]
         IN  AssignData(r, prs, r[pfs[i]].weight, SampleVal(r, prs[i], epsf[i]))

\* a training-mode forward that resamples every prior function
TrainResampleAll(n, i) == [k \in 1 .. n |-> k]

\* the prior functions a training-mode forward resamples: prior_fns[mid] alone
TrainResample(n, i) == << i >>
\* the prior functions an inference-mode forward resamples: all, in list order
InferResample(n) == [k \in 1 .. n |-> k]

\* element-wise sum of two outputs
VecAdd(a, b) == [k \in 1 .. OutSize |-> a[k] + b[k]]
Exact(v) == [k \in 1 .. OutSize |-> [num |-> v[k], den |-> 1]]

RECURSIVE SumOver(_, _, _)
SumOver(ys, k, n) == IF n = 0 THEN 0 ELSE SumOver(ys, k, n - 1) + ys[n][k]
RECURSIVE SumSqOver(_, _, _)
SumSqOver(ys, k, n) == IF n = 0 THEN 0 ELSE SumSqOver(ys, k, n - 1) + ys[n][k] * ys[n][k]

\* torch.stack(ys, 0).mean(0)
Mean0(ys) ==
    [k \in 1 .. OutSize |-> [num |-> SumOver(ys, k, Len(ys)), den |-> Len(ys)]]

\* torch.stack(ys, 0).var(0): the unbiased estimator, sum((y - mean)^2) / (n - 1),
\* as the fraction (n * sum(y^2) - sum(y)^2) / (n * (n - 1)); 0/0 (NaN) for n = 1
Var0(ys) ==
    LET n == Len(ys)
    IN  [k \in 1 .. OutSize |->
            [num |-> n * SumSqOver(ys, k, n) - SumOver(ys, k, n) * SumOver(ys, k, n),
             den |-> n * (n - 1)]]

\* ys = [model(x) for model in ensemble]
MemberOutputs(h, ens, x) == [i \in 1 .. Len(ens) |-> ModelOut(h, ens[i], x)]
\* ys = [m(x) + p(x) for m, p in zip(ensemble, prior_fns)]
PriorOutputs(h, ens, pfs, x) ==
    [i \in 1 .. Len(ens) |-> VecAdd(ModelOut(h, ens[i], x), ModelOut(h, pfs[i], x))]

\* the ys of a var() that adds the prior functions' outputs when there are any
VarOutputsWithPriors(h, ens, pfs, x) ==
    IF pfs # <<>> THEN PriorOutputs(h, ens, pfs, x) ELSE MemberOutputs(h, ens, x)

\* the ys of var(): the members' raw outputs
VarOutputs(h, ens, pfs, x) == MemberOutputs(h, ens, x)

\* groups over the prior functions as well as the members
ParametersWithPriors(h, ens, pfs) ==
    [i \in 1 .. (Len(ens) + Len(pfs)) |->
        IF i <= Len(ens) THEN << h[ens[i]].weight, h[ens[i]].bias >>
        ELSE << h[pfs[i - Len(ens)]].weight, h[pfs[i - Len(ens)]].bias >>]

\* [{"params": model.parameters()} for model in ensemble]
Parameters(h, ens, pfs) == [i \in 1 .. Len(ens) |-> << h[ens[i]].weight, h[ens[i]].bias >>]

\* ------------------------------------------------------------- operations
\* the single-threaded caller makes a call only after the previous one returned
\* and its outcome was consumed
Idle == call.op = "init"

\* the caller is done with the outcome of the last call
Return ==
    /\ ~Idle
    /\ call' = NoCall
    /\ UNCHANGED <<heap, proto, ensemble, prior_fns, priors, bno, beta, ctor, trained, ep, epLog>>

\* forward(x, mid) with mid given (training mode)
ForwardMid(x, mid) ==
    /\ Idle
    /\ IF ~InRange(Len(ensemble), mid)
       THEN /\ call' = [NoCall EXCEPT !.op = "forward", !.x = x, !.has_mid = TRUE,
                                      !.mid = mid, !.raised = "IndexError"]
            /\ heap' = heap
       ELSE LET i == NormIndex(Len(ensemble), mid) + 1
                y0 == ModelOut(heap, ensemble[i], x)
            IN  IF priors # <<>>
                THEN \E eps \in EpsVals :
                       LET j == NormIndex(Len(prior_fns), mid) + 1
                           idxs == TrainResample(Len(priors), j)
                           epsf == [k \in { idxs[n] : n \in 1 .. Len(idxs) } |-> eps]
                           h2 == ResampleEach(heap, priors, prior_fns, idxs, epsf, Len(idxs))
                       IN  /\ heap' = h2
                           /\ call' = [NoCall EXCEPT !.op = "forward", !.x = x,
                                          !.has_mid = TRUE, !.mid = mid, !.eps = epsf,
                                          !.y = Exact(VecAdd(y0, ModelOut(h2, prior_fns[j], x)))]
                ELSE /\ heap' = heap
                     /\ call' = [NoCall EXCEPT !.op = "forward", !.x = x,
                                    !.has_mid = TRUE, !.mid = mid, !.y = Exact(y0)]
    /\ UNCHANGED <<proto, ensemble, prior_fns, priors, bno, beta, ctor, trained, ep, epLog>>

\* forward(x) with mid omitted (inference mode)
ForwardAll(x) ==
    /\ Idle
    /\ IF priors # <<>>
       THEN \E epsf \in [1 .. Len(priors) -> EpsVals] :
              LET idxs == InferResample(Len(priors))
                  h2 == ResampleEach(heap, priors, prior_fns, idxs, epsf, Len(idxs))
              IN  /\ heap' = h2
                  /\ call' = [NoCall EXCEPT !.op = "forward", !.x = x, !.eps = epsf,
                                 !.y = Mean0(PriorOutputs(h2, ensemble, prior_fns, x))]
       ELSE /\ heap' = heap
            /\ call' = [NoCall EXCEPT !.op = "forward", !.x = x,
                           !.y = Mean0(MemberOutputs(heap, ensemble, x))]
    /\ UNCHANGED <<proto, ensemble, prior_fns, priors, bno, beta, ctor, trained, ep, epLog>>

\* var(x) and var(x, action)
VarCall(x, has_action, action) ==
    /\ Idle
    /\ LET v == Var0(VarOutputs(heap, ensemble, prior_fns, x))
       IN  call' = [NoCall EXCEPT !.op = "var", !.x = x, !.has_action = has_action,
                       !.action = action,
                       !.y = IF has_action THEN << v[action + 1] >> ELSE v]
    /\ UNCHANGED <<heap, proto, ensemble, prior_fns, priors, bno, beta, ctor, trained, ep, epLog>>

\* parameters()
ParametersCall ==
    /\ Idle
    /\ call' = [NoCall EXCEPT !.op = "parameters",
                   !.items = Parameters(heap, ensemble, prior_fns)]
    /\ UNCHANGED <<heap, proto, ensemble, prior_fns, priors, bno, beta, ctor, trained, ep, epLog>>

\* iter(ensemble), consumed to the end
IterCall ==
    /\ Idle
    /\ call' = [NoCall EXCEPT !.op = "iter", !.items = ensemble]
    /\ UNCHANGED <<heap, proto, ensemble, prior_fns, priors, bno, beta, ctor, trained, ep, epLog>>

\* len(ensemble)
LenCall ==
    /\ Idle
    /\ call' = [NoCall EXCEPT !.op = "len", !.n = Len(ensemble)]
    /\ UNCHANGED <<heap, proto, ensemble, prior_fns, priors, bno, beta, ctor, trained, ep, epLog>>

\* the in-place update of every trainable Parameter of group[1..k]
RECURSIVE StepGroup(_, _, _)
StepGroup(h, group, k) ==
    IF k = 0 THEN h
    ELSE LET r == StepGroup(h, group, k - 1)
             p == group[k]
         IN  IF r[p].requires_grad
             THEN SetData(r, p, VecAdd(DataOf(r, p), Delta))
             ELSE r

\* an optimizer built over parameters() steps the group of member g
OptimStep(g) ==
    /\ Idle
    /\ trained < MaxTrain
    /\ LET groups == Parameters(heap, ensemble, prior_fns)
       IN  /\ g \in 1 .. Len(groups)
           /\ heap' = StepGroup(heap, groups[g], Len(groups[g]))
    /\ trained' = trained + 1
    /\ call' = [NoCall EXCEPT !.op = "step", !.n = g]
    /\ UNCHANGED <<proto, ensemble, prior_fns, priors, bno, beta, ctor, ep, epLog>>

Next ==
    \/ \E x \in XVals, mid \in Mids : ForwardMid(x, mid)
    \/ \E x \in XVals : ForwardAll(x)
    \/ \E x \in XVals : VarCall(x, FALSE, 0)
    \/ \E x \in XVals, a \in 0 .. (OutSize - 1) : VarCall(x, TRUE, a)
    \/ ParametersCall
    \/ IterCall
    \/ LenCall
    \/ \E g \in 1 .. MaxB : OptimStep(g)
    \/ Return
Spec == Init /\ [][Next]_vars

\* ---------------------------------------------------------------- Episode
\* Episode.__init__(env, policy, _state): the start state is env.reset() or
\* the given _state
InitEpisode ==
    /\ \E s0 \in EnvStates :
         ep = [R |-> 0, step_cnt |-> -1, state |-> s0, done |-> FALSE]
    /\ epLog = NoEpLog
    /\ heap = [a \in Addr |-> FreeCell]
    /\ proto = 0
    /\ ensemble = <<>>
    /\ prior_fns = <<>>
    /\ priors = <<>>
    /\ bno = 0
    /\ beta = 0
    /\ ctor = [B |-> 0, beta |-> 0, members |-> <<>>, weights |-> <<>>,
               proto_weight |-> <<>>, proto_bias |-> <<>>]
    /\ trained = 0
    /\ call = NoCall

\* Episode.__next__ while the episode is running: the policy acts, the
\* environment steps to s2 with reward r and flag d, the transition is returned
EpisodeNext(s2, r, d) ==
    /\ ~ep.done
    /\ epLog.env_steps < MaxSteps
    /\ ep' = [R |-> ep.R + r, step_cnt |-> ep.step_cnt + 1, state |-> s2, done |-> d]
    /\ epLog' = [epLog EXCEPT !.returned = @ + 1, !.rewards = @ + r, !.acts = @ + 1,
                              !.env_steps = @ + 1, !.last = "transition"]
    /\ UNCHANGED ensVars

\* Episode.__next__ once the environment reported done: StopIteration
EpisodeStop ==
    /\ ep.done
    /\ epLog.stops < MaxSteps
    /\ ep' = ep
    /\ epLog' = [epLog EXCEPT !.stops = @ + 1, !.last = "StopIteration"]
    /\ UNCHANGED ensVars

NextEpisode ==
    \/ \E s2 \in EnvStates, r \in Rewards, d \in BOOLEAN : EpisodeNext(s2, r, d)
    \/ EpisodeStop

SpecEpisode == InitEpisode /\ [][NextEpisode]_vars

\* Episode.Rt and Episode.steps
Rt == ep.R
steps == ep.step_cnt

\* ================================================================= claims
Members == 1 .. Len(ensemble)
SeqRange(q) == { q[n] : n \in 1 .. Len(q) }
\* the Parameters and the tensors a module reaches
ParamsOf(h, m) == { h[m].weight, h[m].bias }
StorageOf(h, m) == { h[h[m].weight].data, h[h[m].bias].data }
TrainableOf(h, m) == { q \in ParamsOf(h, m) : h[q].requires_grad }
IsZero(f) == f.num = 0 /\ f.den # 0
IsValue(f, v) == f.den # 0 /\ f.num = v * f.den
ValidMid(m) == m \in 0 .. (Len(ensemble) - 1)

\* C1: the ensemble holds exactly the B members it was constructed with, in
\* construction order and pairwise distinct, in every reachable state; len()
\* reports B and iteration yields exactly those members in that order.
C1_MembersFixed ==
    /\ Len(ensemble) = ctor.B
    /\ ensemble = ctor.members
    /\ \A i, j \in Members : i # j => ensemble[i] # ensemble[j]
    /\ call.op = "len" => call.n = ctor.B
    /\ call.op = "iter" =>
         /\ Len(call.items) = ctor.B
         /\ call.items = ctor.members
         /\ \A i, j \in 1 .. Len(call.items) : i # j => call.items[i] # call.items[j]

C1_Witness ==
    /\ call.op = "iter"
    /\ Len(ensemble) = 3
    /\ trained > 0
    /\ beta > 0
    /\ \E i \in 1 .. Len(prior_fns) : WeightOf(heap, prior_fns[i]) # heap[priors[i].loc].val

\* C2: members share no Parameter and no storage with each other or with the
\* prototype, and an optimizer step on member g leaves every other member's
\* parameters and output, and the prototype's parameters, as they were, while
\* it does change member g's.
C2_NoSharing ==
    /\ \A i, j \in Members : i # j =>
         /\ ParamsOf(heap, ensemble[i]) \cap ParamsOf(heap, ensemble[j]) = {}
         /\ StorageOf(heap, ensemble[i]) \cap StorageOf(heap, ensemble[j]) = {}
    /\ \A i \in Members :
         /\ ParamsOf(heap, ensemble[i]) \cap ParamsOf(heap, proto) = {}
         /\ StorageOf(heap, ensemble[i]) \cap StorageOf(heap, proto) = {}

C2_StepFrame ==
    call'.op = "step" =>
      /\ C2_NoSharing
      /\ WeightOf(heap', ensemble[call'.n]) = VecAdd(WeightOf(heap, ensemble[call'.n]), Delta)
      /\ \A j \in Members : j # call'.n =>
           /\ WeightOf(heap', ensemble[j]) = WeightOf(heap, ensemble[j])
           /\ BiasOf(heap', ensemble[j]) = BiasOf(heap, ensemble[j])
           /\ \A x \in XVals : ModelOut(heap', ensemble[j], x) = ModelOut(heap, ensemble[j], x)
      /\ WeightOf(heap', proto) = ctor.proto_weight
      /\ BiasOf(heap', proto) = ctor.proto_bias

C2_MembersIsolated == [][C2_StepFrame]_vars

C2_Witness ==
    /\ call.op = "step"
    /\ Len(ensemble) >= 2
    /\ WeightOf(heap, ensemble[call.n]) # ctor.weights[call.n]
    /\ \E j \in Members : j # call.n /\ ctor.weights[j] = ctor.weights[call.n]

\* C3: a training-mode forward whose mid lies outside [0, B), above or below,
\* raises an out-of-range error and returns no member's prediction.
C3_OutOfRangeRaises ==
    (call.op = "forward" /\ call.has_mid /\ ~ValidMid(call.mid)) =>
        (call.raised = "IndexError" /\ call.y = <<>>)

C5_PriorsImmutable ==
    beta > 0 =>
      \A i \in 1 .. Len(priors) :
        /\ heap[priors[i].loc].val = ctor.weights[i]
        /\ \A k \in 1 .. OutSize : heap[priors[i].scale].val[k] = PriorScaleTenths * ctor.beta

C5_Witness ==
    /\ beta > 0
    /\ trained > 0
    /\ \E i \in 1 .. Len(priors) :
         /\ WeightOf(heap, ensemble[i]) # ctor.weights[i]
         /\ WeightOf(heap, prior_fns[i]) # heap[priors[i].loc].val

\* C6: a var call returns the variance of the members' raw outputs alone, and
\* resamples nothing and changes no parameter, no prior function and no prior
\* distribution.
C6_VarStep ==
    call'.op = "var" =>
      /\ heap' = heap /\ priors' = priors /\ prior_fns' = prior_fns /\ ensemble' = ensemble
      /\ call'.eps = <<>>
      /\ LET raw == [i \in Members |-> ModelOut(heap, ensemble[i], call'.x)]
             n == Len(ensemble)
             v == [k \in 1 .. OutSize |->
                     [num |-> n * SumSqOver(raw, k, n) - SumOver(raw, k, n) * SumOver(raw, k, n),
                      den |-> n * (n - 1)]]
         IN  call'.y = IF call'.has_action THEN << v[call'.action + 1] >> ELSE v

C6_VarMembersOnly == [][C6_VarStep]_vars

C6_Witness ==
    /\ call.op = "var" /\ ~call.has_action
    /\ beta > 0
    /\ Len(ensemble) >= 2
    /\ \E k \in 1 .. OutSize : call.y[k].num # 0
    /\ \E i \in 1 .. Len(prior_fns) : WeightOf(heap, prior_fns[i]) # heap[priors[i].loc].val

\* C7: parameters() returns exactly B groups, group i being exactly member i's
\* trainable parameters, pairwise disjoint and free of prior-function
\* parameters; an optimizer step changes no prior function's parameters, which
\* change only when a forward call resamples them.
PriorParams == UNION { ParamsOf(heap, prior_fns[i]) : i \in 1 .. Len(prior_fns) }

C7_Groups(groups) ==
    /\ Len(groups) = ctor.B
    /\ \A i \in 1 .. Len(groups) :
         /\ SeqRange(groups[i]) = TrainableOf(heap, ensemble[i])
         /\ SeqRange(groups[i]) = ParamsOf(heap, ensemble[i])
         /\ SeqRange(groups[i]) \cap PriorParams = {}
    /\ \A i, j \in 1 .. Len(groups) : i # j => SeqRange(groups[i]) \cap SeqRange(groups[j]) = {}

C7_Step ==
    /\ call'.op = "parameters" => C7_Groups(call'.items)
    /\ \A i \in 1 .. Len(prior_fns) :
         /\ BiasOf(heap', prior_fns[i]) = BiasOf(heap, prior_fns[i])
         /\ WeightOf(heap', prior_fns[i]) # WeightOf(heap, prior_fns[i]) =>
              (call'.op = "forward" /\ i \in DOMAIN call'.eps)
         /\ ~heap[heap[prior_fns[i]].weight].requires_grad

C7_ParameterGroups == [][C7_Step]_vars

C7_Witness ==
    /\ call.op = "parameters"
    /\ beta > 0
    /\ Len(call.items) = 3
    /\ trained > 0
    /\ \E i \in Members : WeightOf(heap, ensemble[i]) # ctor.weights[i]

\* C8: with beta = 0 and all B members giving the same output v on x, an
\* inference-mode forward(x) returns v and var(x) returns zero in every output
\* position, for every B >= 1.
SameOutputs(x) ==
    \A i, j \in Members : ModelOut(heap, ensemble[i], x) = ModelOut(heap, ensemble[j], x)

C8_IdenticalMembers ==
    (beta = 0 /\ SameOutputs(call.x)) =>
      /\ (call.op = "forward" /\ ~call.has_mid) =>
           \A k \in 1 .. OutSize : IsValue(call.y[k], ModelOut(heap, ensemble[1], call.x)[k])
      /\ (call.op = "var" /\ ~call.has_action) =>
           \A k \in 1 .. OutSize : IsZero(call.y[k])

\* C9: a training-mode forward with a valid mid = i returns member i's output,
\* plus prior function i's output under weights freshly sampled in that call
\* when priors are enabled; it resamples prior function i alone and changes no
\* other prior function and no member.  An inference-mode forward with priors
\* enabled resamples every prior function.
C9_Step ==
    /\ (call'.op = "forward" /\ call'.has_mid /\ ValidMid(call'.mid)) =>
         LET i == call'.mid + 1
             m == ModelOut(heap, ensemble[i], call'.x)
         IN  /\ call'.raised = "none"
             /\ \A j \in Members :
                  /\ WeightOf(heap', ensemble[j]) = WeightOf(heap, ensemble[j])
                  /\ BiasOf(heap', ensemble[j]) = BiasOf(heap, ensemble[j])
             /\ beta = 0 =>
                  /\ heap' = heap
                  /\ \A k \in 1 .. OutSize : call'.y[k] = [num |-> m[k], den |-> 1]
             /\ beta > 0 =>
                  /\ DOMAIN call'.eps = { i }
                  /\ call'.eps[i] \in EpsVals
                  /\ \A k \in 1 .. OutSize :
                       /\ WeightOf(heap', prior_fns[i])[k] =
                            heap[priors[i].loc].val[k] + call'.eps[i][k] * PriorScaleTenths * beta
                       /\ call'.y[k] =
                            [num |-> m[k] + WeightOf(heap', prior_fns[i])[k] * call'.x
                                          + BiasOf(heap, prior_fns[i])[k],
                             den |-> 1]
                  /\ \A j \in 1 .. Len(prior_fns) :
                       /\ BiasOf(heap', prior_fns[j]) = BiasOf(heap, prior_fns[j])
                       /\ j # i => WeightOf(heap', prior_fns[j]) = WeightOf(heap, prior_fns[j])
    /\ (call'.op = "forward" /\ ~call'.has_mid /\ beta > 0) =>
         /\ DOMAIN call'.eps = 1 .. Len(prior_fns)
         /\ \A j \in 1 .. Len(prior_fns) : \A k \in 1 .. OutSize :
              WeightOf(heap', prior_fns[j])[k] =
                heap[priors[j].loc].val[k] + call'.eps[j][k] * PriorScaleTenths * beta

C9_TrainingForward == [][C9_Step]_vars

C9_Witness ==
    /\ call.op = "forward" /\ call.has_mid /\ ValidMid(call.mid)
    /\ beta > 0
    /\ Len(ensemble) >= 2
    /\ call.eps[call.mid + 1] # <<0, 0>>
    /\ \E j \in 1 .. Len(prior_fns) :
         /\ j # call.mid + 1
         /\ WeightOf(heap, prior_fns[j]) # heap[priors[j].loc].val

\* C10: steps is the number of transitions __next__ has returned (0 for a
\* fresh episode), Rt is the sum of their rewards, and the policy and the
\* environment are called once per returned transition and never by a
\* __next__ that raises StopIteration, which happens only once done.
C10_StepsCountTransitions ==
    /\ steps = epLog.returned
    /\ Rt = epLog.rewards
    /\ epLog.acts = epLog.returned
    /\ epLog.env_steps = epLog.returned
    /\ epLog.last = "StopIteration" => ep.done

====
